---- MODULE Spec2Model ----
(***************************************************************************)
(* WAMP-over-RawSocket transport (autobahn/twisted/rawsocket.py).          *)
(*                                                                         *)
(* One WampRawSocketProtocol instance on one connection: the length-       *)
(* prefixed framing it inherits from Int32StringReceiver, the Session it   *)
(* binds in connectionMade, the dispatch of inbound frames in              *)
(* stringReceived, and the ITransport calls send / isOpen / close / abort. *)
(* The Session, the Serializer and the underlying connection are the       *)
(* environment: their behaviour is drawn from small sets.                  *)
(***************************************************************************)
EXTENDS Integers, Sequences, FiniteSets, TLC

\* ------------------------------------------------------------------ bounds

\* Frames the peer writes in one behaviour.
MaxFrames == 2
\* send / close / abort calls made by the application in one behaviour.
MaxCalls == 2

\* ------------------------------------------------------- the environment

\* Int32StringReceiver: structFormat "!I", prefixLength = calcsize("!I").
prefixLength == 4

\* The serializer's alphabet.  One message per payload byte (a batching
\* serializer): 120 decodes to "x", 121 to "y"; a 0 byte is a structural
\* violation (ProtocolError); a 255 byte makes the decoder fail otherwise.
ByteX == 120
ByteY == 121
ByteBad == 0
ByteCrash == 255

Msgs == {"x", "y"}
\* A message value the serializer cannot encode.
Unencodable == "unencodable"

\* The payloads a peer frames by hand: no message, two messages either way
\* round, a malformed payload, a payload the decoder fails on.  Payloads of one
\* message come from a peer that calls send (peerSend below).
Payloads ==
    { <<>>, <<ByteX, ByteY>>, <<ByteY, ByteX>>, <<ByteBad>>, <<ByteCrash>> }

\* ISerializer.serialize(msg) -> (payload, isBinary); raises for a value it
\* cannot encode.
serialize(msg) ==
    CASE msg = "x" -> [err |-> "none", payload |-> <<ByteX>>]
      [] msg = "y" -> [err |-> "none", payload |-> <<ByteY>>]
      [] OTHER     -> [err |-> "Exception", payload |-> <<>>]

decodeByte(b) == IF b = ByteX THEN "x" ELSE "y"

\* ISerializer.unserialize(payload) -> list of messages; raises ProtocolError
\* for a malformed payload, and may fail in other ways.
unserialize(payload) ==
    IF \E i \in 1..Len(payload) : payload[i] = ByteBad
      THEN [err |-> "ProtocolError", msgs |-> <<>>]
    ELSE IF \E i \in 1..Len(payload) : payload[i] = ByteCrash
      THEN [err |-> "Exception", msgs |-> <<>>]
    ELSE [err |-> "none", msgs |-> [i \in 1..Len(payload) |-> decodeByte(payload[i])]]

\* struct.pack("!I", n): four bytes, most significant first.
pack(n) ==
    << (n \div 16777216) % 256, (n \div 65536) % 256, (n \div 256) % 256, n % 256 >>

\* struct.unpack("!I", b)
unpack(b) == b[1] * 16777216 + b[2] * 65536 + b[3] * 256 + b[4]

\* Int32StringReceiver.sendString(payload): the bytes handed to transport.write.
sendString(payload) == pack(Len(payload)) \o payload

Drop(s, n) == SubSeq(s, n + 1, Len(s))

\* ------------------------------------------------------------------ state

VARIABLES
    conn,                  \* "connecting" | "connected" | "lost": the underlying connection
    session,               \* self._session: "unset" (never assigned) | "bound" | "none"
    raisesOn,              \* the message the bound Session's onMessage raises on, or "nothing"
    hasAbortConnection,    \* hasattr(self.transport, 'abortConnection')
    wire,                  \* bytes the peer wrote that have not been read yet
    unprocessed,           \* Int32StringReceiver._unprocessed
    peerFrames,            \* history: what the peer wrote, frame by frame
    frameLog,              \* history: one record per stringReceived call
    written,               \* history: one record per frame handed to transport.write
    abortConnectionCalls,  \* calls of transport.abortConnection()
    loseConnectionCalls,   \* calls of transport.loseConnection()
    madeResult,            \* how connectionMade went
    closeLog,              \* history: the wasClean argument of each Session.onClose call
    lostResult,            \* how connectionLost went
    rxResult,              \* how the last dataReceived returned
    lastCall,              \* the last send / close / abort call of the application
    nCalls,                \* send / close / abort calls made so far
    callLog,               \* history: one record per send / close / abort call
    sessionLog             \* history: the Session callbacks made, in call order

vars == << conn, session, raisesOn, hasAbortConnection, wire, unprocessed, peerFrames,
           frameLog, written, abortConnectionCalls, loseConnectionCalls, madeResult,
           closeLog, lostResult, rxResult, lastCall, nCalls, callLog, sessionLog >>

NoCall == [op |-> "none", result |-> "none", lost |-> FALSE, torn |-> FALSE,
           effect |-> FALSE]

NotMade == [ctorRaised |-> FALSE, onOpenRaised |-> FALSE, result |-> "none"]

Init ==
    /\ conn = "connecting"
    /\ session = "unset"
    /\ raisesOn = "nothing"
    /\ hasAbortConnection \in BOOLEAN
    /\ wire = <<>>
    /\ unprocessed = <<>>
    /\ peerFrames = <<>>
    /\ frameLog = <<>>
    /\ written = <<>>
    /\ abortConnectionCalls = 0
    /\ loseConnectionCalls = 0
    /\ madeResult = NotMade
    /\ closeLog = <<>>
    /\ lostResult = "none"
    /\ rxResult = "none"
    /\ lastCall = NoCall
    /\ nCalls = 0
    /\ callLog = <<>>
    /\ sessionLog = <<>>

\* ------------------------------------------------------------- ITransport

\* isOpen(): self._session is not None.  Reading an attribute that was never
\* assigned raises AttributeError.
isOpen(sess) ==
    CASE sess = "bound" -> [raised |-> "none", value |-> TRUE]
      [] sess = "none"  -> [raised |-> "none", value |-> FALSE]
      [] OTHER          -> [raised |-> "AttributeError", value |-> FALSE]

\* An abort that never looks for abortConnection and always closes gracefully.
abortEffectAlwaysLose(sess, hasAbort) ==
    LET open == isOpen(sess)
    IN  IF open.raised # "none"
          THEN [raised |-> open.raised, abortConnection |-> 0, loseConnection |-> 0]
        ELSE IF open.value
          THEN [raised |-> "none", abortConnection |-> 0, loseConnection |-> 1]
        ELSE [raised |-> "TransportLost", abortConnection |-> 0, loseConnection |-> 0]

\* abort(): what one call does to the underlying connection, and what it raises.
abortEffect(sess, hasAbort) ==
    LET open == isOpen(sess)
    IN  IF open.raised # "none"
          THEN [raised |-> open.raised, abortConnection |-> 0, loseConnection |-> 0]
        ELSE IF open.value
          THEN IF hasAbort
                 THEN [raised |-> "none", abortConnection |-> 1, loseConnection |-> 0]
                 ELSE [raised |-> "none", abortConnection |-> 0, loseConnection |-> 1]
        ELSE [raised |-> "TransportLost", abortConnection |-> 0, loseConnection |-> 0]

\* close(): graceful shutdown of the underlying connection.
closeEffect(sess) ==
    LET open == isOpen(sess)
    IN  IF open.raised # "none"
          THEN [raised |-> open.raised, loseConnection |-> 0]
        ELSE IF open.value
          THEN [raised |-> "none", loseConnection |-> 1]
        ELSE [raised |-> "TransportLost", loseConnection |-> 0]

\* A send that writes the payload without framing it.
sendEffectUnframed(sess, msg) ==
    LET open == isOpen(sess)
    IN  IF open.raised # "none"
          THEN [raised |-> open.raised, bytes |-> <<>>, wrote |-> FALSE]
        ELSE IF open.value
          THEN LET s == serialize(msg)
               IN  IF s.err # "none"
                     THEN [raised |-> "SerializationError", bytes |-> <<>>, wrote |-> FALSE]
                     ELSE [raised |-> "none", bytes |-> s.payload, wrote |-> TRUE]
        ELSE [raised |-> "TransportLost", bytes |-> <<>>, wrote |-> FALSE]

\* A send that writes a frame even when the serializer refused the message.
sendEffectWritesOnError(sess, msg) ==
    LET open == isOpen(sess)
    IN  IF open.raised # "none"
          THEN [raised |-> open.raised, bytes |-> <<>>, wrote |-> FALSE]
        ELSE IF open.value
          THEN LET s == serialize(msg)
               IN  IF s.err # "none"
                     THEN [raised |-> "SerializationError", bytes |-> sendString(<<>>),
                           wrote |-> TRUE]
                     ELSE [raised |-> "none", bytes |-> sendString(s.payload), wrote |-> TRUE]
        ELSE [raised |-> "TransportLost", bytes |-> <<>>, wrote |-> FALSE]

\* send(msg): the frame written, if any, and what the call raises.
sendEffect(sess, msg) ==
    LET open == isOpen(sess)
    IN  IF open.raised # "none"
          THEN [raised |-> open.raised, bytes |-> <<>>, wrote |-> FALSE]
        ELSE IF open.value
          THEN LET s == serialize(msg)
               IN  IF s.err # "none"
                     THEN [raised |-> "SerializationError", bytes |-> <<>>, wrote |-> FALSE]
                     ELSE [raised |-> "none", bytes |-> sendString(s.payload), wrote |-> TRUE]
        ELSE [raised |-> "TransportLost", bytes |-> <<>>, wrote |-> FALSE]

\* ---------------------------------------------------------------- inbound

\* A loop that catches what onMessage raises and goes on with the frame's
\* remaining messages before it reports the failure.
forwardPastFailure(sess, poison, msgs, called) ==
    IF msgs = <<>> THEN [calls |-> called, failure |-> "none"]
    ELSE IF sess # "bound" THEN [calls |-> called, failure |-> "AttributeError"]
    ELSE [calls |-> called \o msgs,
          failure |-> IF \E i \in 1..Len(msgs) : msgs[i] = poison
                        THEN "onMessage" ELSE "none"]

\* A loop that returns after its first message.
forwardOnlyFirst(sess, poison, msgs, called) ==
    IF msgs = <<>> THEN [calls |-> called, failure |-> "none"]
    ELSE IF sess # "bound" THEN [calls |-> called, failure |-> "AttributeError"]
    ELSE IF Head(msgs) = poison
      THEN [calls |-> Append(called, Head(msgs)), failure |-> "onMessage"]
    ELSE [calls |-> Append(called, Head(msgs)), failure |-> "none"]

\* The for loop of stringReceived over the decoded messages: the messages
\* Session.onMessage was called with, in order, and the failure that ended the
\* loop.  Without a bound Session the first self._session.onMessage raises
\* AttributeError before anything is called.
RECURSIVE forward(_, _, _, _)
forward(sess, poison, msgs, called) ==
    IF msgs = <<>> THEN [calls |-> called, failure |-> "none"]
    ELSE IF sess # "bound" THEN [calls |-> called, failure |-> "AttributeError"]
    ELSE IF Head(msgs) = poison
      THEN [calls |-> Append(called, Head(msgs)), failure |-> "onMessage"]
    ELSE forward(sess, poison, Tail(msgs), Append(called, Head(msgs)))

\* An except clause for ProtocolError alone.
abortsForProtocolErrorOnly(failure) == IF failure = "ProtocolError" THEN 1 ELSE 0

\* The except clauses of stringReceived: ProtocolError, then every other
\* Exception; each calls self.abort() once.
abortsFor(failure) == IF failure = "none" THEN 0 ELSE 1

\* stringReceived(payload): one record of what the call did.
\*   failure  "none" | "ProtocolError" | "Exception" (unserialize raised)
\*            | "onMessage" (the Session raised) | "AttributeError"
\*   calls    the messages Session.onMessage was called with
\*   aborts   the number of self.abort() calls made
\*   raised   the exception that left stringReceived, "none" for a normal return
stringReceived(sess, poison, hasAbort, payload) ==
    LET u == unserialize(payload)
        f == IF u.err # "none" THEN [calls |-> <<>>, failure |-> u.err]
             ELSE forward(sess, poison, u.msgs, <<>>)
        n == abortsFor(f.failure)
        a == abortEffect(sess, hasAbort)
    IN  IF n = 0
          THEN [payload |-> payload, failure |-> f.failure, calls |-> f.calls, aborts |-> 0,
                abortConnection |-> 0, loseConnection |-> 0, raised |-> "none",
                open |-> (sess = "bound")]
          ELSE [payload |-> payload, failure |-> f.failure, calls |-> f.calls, aborts |-> n,
                abortConnection |-> a.abortConnection, loseConnection |-> a.loseConnection,
                raised |-> a.raised, open |-> (sess = "bound")]

\* A loop that hands over whatever follows a complete prefix.
receiveLoopEager(sess, poison, hasAbort, alldata, currentOffset, log) ==
    IF Len(alldata) < currentOffset + prefixLength
      THEN [unprocessed |-> Drop(alldata, currentOffset), log |-> log, raised |-> "none"]
    ELSE
      LET messageStart == currentOffset + prefixLength
          r == stringReceived(sess, poison, hasAbort, Drop(alldata, messageStart))
      IN  [unprocessed |-> <<>>, log |-> Append(log, r), raised |-> r.raised]

\* IntNStringReceiver.dataReceived: the loop over the buffer.  A frame is cut
\* out and handed to stringReceived once the buffer holds its prefix and all
\* the bytes the prefix announces; the rest stays in _unprocessed.  An
\* exception leaving stringReceived leaves the loop with _unprocessed still
\* holding all the data.
RECURSIVE receiveLoop(_, _, _, _, _, _)
receiveLoop(sess, poison, hasAbort, alldata, currentOffset, log) ==
    IF Len(alldata) < currentOffset + prefixLength
      THEN [unprocessed |-> Drop(alldata, currentOffset), log |-> log, raised |-> "none"]
    ELSE
      LET messageStart == currentOffset + prefixLength
          length == unpack(SubSeq(alldata, currentOffset + 1, messageStart))
          messageEnd == messageStart + length
      IN  IF Len(alldata) < messageEnd
            THEN [unprocessed |-> Drop(alldata, currentOffset), log |-> log,
                  raised |-> "none"]
          ELSE
            LET packet == SubSeq(alldata, messageStart + 1, messageEnd)
                r == stringReceived(sess, poison, hasAbort, packet)
            IN  IF r.raised # "none"
                  THEN [unprocessed |-> alldata, log |-> Append(log, r),
                        raised |-> r.raised]
                  ELSE receiveLoop(sess, poison, hasAbort, alldata, messageEnd,
                                   Append(log, r))

RECURSIVE SumField(_, _)
SumField(log, fld) ==
    IF log = <<>> THEN 0 ELSE log[1][fld] + SumField(Tail(log), fld)

\* The messages Session.onMessage was called with, in call order.
RECURSIVE CallsOf(_)
CallsOf(log) == IF log = <<>> THEN <<>> ELSE log[1].calls \o CallsOf(Tail(log))

\* The peer writes one frame: prefix and payload.
peerWrite ==
    /\ conn = "connected"
    /\ Len(peerFrames) < MaxFrames
    /\ \E p \in Payloads :
         /\ wire' = wire \o sendString(p)
         /\ peerFrames' = Append(peerFrames, [payload |-> p, sent |-> "raw"])
    /\ UNCHANGED << conn, session, raisesOn, hasAbortConnection, unprocessed, frameLog,
                    written, abortConnectionCalls, loseConnectionCalls, madeResult,
                    closeLog, lostResult, rxResult, lastCall, nCalls,
                    callLog, sessionLog >>

\* The peer is itself an open transport of this class and calls send(msg).
peerSend ==
    /\ conn = "connected"
    /\ Len(peerFrames) < MaxFrames
    /\ \E m \in Msgs :
         LET e == sendEffect("bound", m)
         IN  /\ wire' = wire \o e.bytes
             /\ peerFrames' = Append(peerFrames, [payload |-> serialize(m).payload,
                                                   sent |-> m])
    /\ UNCHANGED << conn, session, raisesOn, hasAbortConnection, unprocessed, frameLog,
                    written, abortConnectionCalls, loseConnectionCalls, madeResult,
                    closeLog, lostResult, rxResult, lastCall, nCalls,
                    callLog, sessionLog >>

\* The reactor reads n bytes and calls dataReceived with them.
dataReceived ==
    /\ conn = "connected"
    /\ rxResult \in {"none", "ok"}
    /\ \E n \in 1..Len(wire) :
         LET r == receiveLoop(session, raisesOn, hasAbortConnection,
                              unprocessed \o SubSeq(wire, 1, n), 0, <<>>)
         IN  /\ wire' = Drop(wire, n)
             /\ unprocessed' = r.unprocessed
             /\ frameLog' = frameLog \o r.log
             /\ abortConnectionCalls' = abortConnectionCalls + SumField(r.log, "abortConnection")
             /\ loseConnectionCalls' = loseConnectionCalls + SumField(r.log, "loseConnection")
             /\ rxResult' = IF r.raised = "none" THEN "ok" ELSE r.raised
    /\ sessionLog' = sessionLog \o [i \in 1..(Len(CallsOf(frameLog')) - Len(CallsOf(frameLog)))
                                       |-> "onMessage"]
    /\ UNCHANGED << conn, session, raisesOn, hasAbortConnection, peerFrames, written,
                    madeResult, closeLog, lostResult, lastCall, nCalls,
                    callLog >>

\* -------------------------------------------------------------- lifecycle

\* A connectionMade that binds the Session and never opens it.
openCallsNone(ctorRaises) == <<>>

\* self._session.onOpen(self), reached when the constructor returned.
openCalls(ctorRaises) == IF ctorRaises THEN <<>> ELSE <<"onOpen">>

\* A connectionMade whose except clause lets go of the Session it could not open.
sessionAfterMadeReleased(sess, onOpenRaises) == IF onOpenRaises THEN "none" ELSE sess

\* The except clause of connectionMade calls self.abort() and leaves
\* self._session as the try block left it.
sessionAfterMade(sess, onOpenRaises) == sess

\* connectionMade: the factory's constructor and Session.onOpen may raise.
connectionMade ==
    /\ conn = "connecting"
    /\ \E ctorRaises \in BOOLEAN, onOpenRaises \in BOOLEAN, poison \in {"nothing", "y"} :
         /\ ctorRaises => (~onOpenRaises /\ poison = "nothing")
         /\ LET sess == IF ctorRaises THEN session ELSE "bound"
                failed == ctorRaises \/ onOpenRaises
                a == abortEffect(sess, hasAbortConnection)
            IN  /\ session' = sessionAfterMade(sess, onOpenRaises)
                /\ raisesOn' = poison
                /\ abortConnectionCalls' =
                       abortConnectionCalls + (IF failed THEN a.abortConnection ELSE 0)
                /\ loseConnectionCalls' =
                       loseConnectionCalls + (IF failed THEN a.loseConnection ELSE 0)
                /\ madeResult' = [ctorRaised |-> ctorRaises, onOpenRaised |-> onOpenRaises,
                                  result |-> IF failed /\ a.raised # "none"
                                               THEN a.raised ELSE "ok"]
    /\ conn' = "connected"
    /\ sessionLog' = sessionLog \o openCalls(madeResult'.ctorRaised)
    /\ UNCHANGED << hasAbortConnection, wire, unprocessed, peerFrames, frameLog, written,
                    closeLog, lostResult, rxResult, lastCall, nCalls,
                    callLog >>

\* The reasons the underlying connection reports: ConnectionAborted after
\* abortConnection(), otherwise ConnectionDone (a graceful close, also the one
\* loseConnection() ends in) or another failure (ConnectionLost).
LossReasons ==
    IF abortConnectionCalls > 0 THEN {"ConnectionAborted"}
    ELSE IF rxResult \notin {"none", "ok"} THEN {"ConnectionLost"}
    ELSE {"ConnectionDone", "ConnectionLost"}

\* A test that takes every reason but an abort for a clean close.
wasCleanUnlessAborted(reason) == reason # "ConnectionAborted"

\* isinstance(reason.value, ConnectionDone)
wasCleanOf(reason) == reason = "ConnectionDone"

\* A connectionLost that keeps the Session.
sessionAfterLossKept(sess) == sess

\* self._session = None, the last statement of connectionLost.
sessionAfterLoss(sess) == "none"

\* A connectionLost without its try / except: what onClose raises leaves it.
lostOutcomeUnguarded(sess, onCloseRaises) ==
    IF sess # "bound" THEN "AttributeError"
    ELSE IF onCloseRaises THEN "Exception"
    ELSE "ok"

\* The try / except Exception around self._session.onClose(wasClean): what
\* the call raises, also the AttributeError of an unbound Session, is
\* swallowed, and connectionLost goes on to release the Session.
lostOutcome(sess, onCloseRaises) == "ok"

\* connectionLost(reason): Session.onClose may raise.
connectionLost ==
    /\ conn = "connected"
    /\ \E reason \in LossReasons, onCloseRaises \in BOOLEAN :
         /\ closeLog' = IF session = "bound"
                          THEN Append(closeLog, [wasClean |-> wasCleanOf(reason),
                                                 raised |-> onCloseRaises,
                                                 reason |-> reason])
                          ELSE closeLog
         /\ lostResult' = lostOutcome(session, onCloseRaises)
         /\ session' = IF lostOutcome(session, onCloseRaises) = "ok"
                         THEN sessionAfterLoss(session) ELSE session
    /\ sessionLog' = IF session = "bound" THEN Append(sessionLog, "onClose") ELSE sessionLog
    /\ conn' = "lost"
    /\ UNCHANGED << raisesOn, hasAbortConnection, wire, unprocessed, peerFrames, frameLog,
                    written, abortConnectionCalls, loseConnectionCalls, madeResult,
                    rxResult, lastCall, nCalls, callLog >>

\* ---------------------------------------------------- the application's calls

TornDown == abortConnectionCalls + loseConnectionCalls > 0

send ==
    /\ conn # "connecting"
    /\ nCalls < MaxCalls
    /\ \E msg \in Msgs \cup {Unencodable} :
         LET e == sendEffect(session, msg)
         IN  /\ written' = IF e.wrote THEN Append(written, [msg |-> msg, bytes |-> e.bytes])
                           ELSE written
             /\ lastCall' = [op |-> "send", result |-> IF e.raised = "none" THEN "ok" ELSE e.raised,
                             lost |-> (conn = "lost"), torn |-> TornDown, effect |-> e.wrote]
             /\ callLog' = Append(callLog,
                    [op |-> "send", msg |-> msg, sess |-> session,
                     result |-> IF e.raised = "none" THEN "ok" ELSE e.raised,
                     wrote |-> e.wrote, abortConnection |-> 0,
                     loseConnection |-> 0])
    /\ nCalls' = nCalls + 1
    /\ UNCHANGED << conn, session, raisesOn, hasAbortConnection, wire, unprocessed,
                    peerFrames, frameLog, abortConnectionCalls, loseConnectionCalls,
                    madeResult, closeLog, lostResult, rxResult,
                    sessionLog >>

close ==
    /\ conn # "connecting"
    /\ nCalls < MaxCalls
    /\ LET e == closeEffect(session)
       IN  /\ loseConnectionCalls' = loseConnectionCalls + e.loseConnection
           /\ lastCall' = [op |-> "close", result |-> IF e.raised = "none" THEN "ok" ELSE e.raised,
                           lost |-> (conn = "lost"), torn |-> TornDown,
                           effect |-> (e.loseConnection > 0)]
           /\ callLog' = Append(callLog,
                  [op |-> "close", msg |-> "none", sess |-> session,
                   result |-> IF e.raised = "none" THEN "ok" ELSE e.raised,
                   wrote |-> FALSE, abortConnection |-> 0,
                   loseConnection |-> e.loseConnection])
    /\ nCalls' = nCalls + 1
    /\ UNCHANGED << conn, session, raisesOn, hasAbortConnection, wire, unprocessed,
                    peerFrames, frameLog, written, abortConnectionCalls, madeResult,
                    closeLog, lostResult, rxResult,
                    sessionLog >>

abort ==
    /\ conn # "connecting"
    /\ nCalls < MaxCalls
    /\ LET e == abortEffect(session, hasAbortConnection)
       IN  /\ abortConnectionCalls' = abortConnectionCalls + e.abortConnection
           /\ loseConnectionCalls' = loseConnectionCalls + e.loseConnection
           /\ lastCall' = [op |-> "abort", result |-> IF e.raised = "none" THEN "ok" ELSE e.raised,
                           lost |-> (conn = "lost"), torn |-> TornDown,
                           effect |-> (e.abortConnection + e.loseConnection > 0)]
           /\ callLog' = Append(callLog,
                  [op |-> "abort", msg |-> "none", sess |-> session,
                   result |-> IF e.raised = "none" THEN "ok" ELSE e.raised,
                   wrote |-> FALSE, abortConnection |-> e.abortConnection,
                   loseConnection |-> e.loseConnection])
    /\ nCalls' = nCalls + 1
    /\ UNCHANGED << conn, session, raisesOn, hasAbortConnection, wire, unprocessed,
                    peerFrames, frameLog, written, madeResult, closeLog, lostResult,
                    rxResult,
                    sessionLog >>

Next ==
    \/ connectionMade
    \/ connectionLost
    \/ peerWrite
    \/ peerSend
    \/ dataReceived
    \/ send
    \/ close
    \/ abort

Spec == Init /\ [][Next]_vars

\* The inbound half of the machine: the lifecycle, the peer and the reads.
NextInbound ==
    \/ connectionMade
    \/ connectionLost
    \/ peerWrite
    \/ peerSend
    \/ dataReceived

SpecInbound == Init /\ [][NextInbound]_vars

\* The outbound half: the lifecycle and the application's calls.
NextCalls ==
    \/ connectionMade
    \/ connectionLost
    \/ send
    \/ close
    \/ abort

SpecCalls == Init /\ [][NextCalls]_vars

\* ------------------------------------------------- what the histories say

\* The offset in the peer's byte stream at which frame i ends.
RECURSIVE FrameEnd(_)
FrameEnd(i) ==
    IF i = 0 THEN 0 ELSE FrameEnd(i - 1) + prefixLength + Len(peerFrames[i].payload)

\* Bytes of the peer's stream that dataReceived has been called with.
BytesRead == FrameEnd(Len(peerFrames)) - Len(wire)

\* The frames whose last byte has been read.
Complete == {i \in 1..Len(peerFrames) : FrameEnd(i) <= BytesRead}

NComplete == Cardinality(Complete)

\* The bytes read so far that belong to a frame not yet complete.
PartialLen == BytesRead - FrameEnd(NComplete)

\* The messages the first n frames of the peer decode to, in frame order.
RECURSIVE DecodedUpTo(_)
DecodedUpTo(n) ==
    IF n = 0 THEN <<>>
    ELSE DecodedUpTo(n - 1) \o unserialize(peerFrames[n].payload).msgs

\* msgs up to and including the first message the Session raises on.
RECURSIVE UpToRaise(_)
UpToRaise(msgs) ==
    IF msgs = <<>> THEN <<>>
    ELSE IF Head(msgs) = raisesOn THEN << Head(msgs) >>
    ELSE << Head(msgs) >> \o UpToRaise(Tail(msgs))

\* The onMessage calls the first n frames of the peer are due.
RECURSIVE ExpectedUpTo(_)
ExpectedUpTo(n) ==
    IF n = 0 THEN <<>>
    ELSE ExpectedUpTo(n - 1) \o UpToRaise(unserialize(peerFrames[n].payload).msgs)

AllFramesValid ==
    \A i \in 1..Len(peerFrames) : unserialize(peerFrames[i].payload).err = "none"

DecodeFailures == {"ProtocolError", "Exception"}

\* ------------------------------------------------------------------ claims

\* C1 (as stated): for valid frames, however the byte stream is split into
\* reads, the onMessage calls on an open transport are exactly the messages the
\* frames read so far decode to, in frame order.
C1_AllDecodedMessagesDelivered ==
    (session = "bound" /\ AllFramesValid) => CallsOf(frameLog) = DecodedUpTo(NComplete)

\* C1 (amended): for valid frames, however the byte stream is split into
\* reads, the onMessage calls on an open transport are the messages the frames
\* read so far decode to, in frame order, each frame's messages cut after the
\* first one Session.onMessage raises on (none is cut when it never raises).
C1_DeliveryInOrder ==
    (session = "bound" /\ AllFramesValid) => CallsOf(frameLog) = ExpectedUpTo(NComplete)

\* C1 witness: a frame of two messages has been delivered, then a read ended
\* inside the next frame, whose first bytes are buffered.
C1_Witness ==
    /\ session = "bound" /\ AllFramesValid /\ raisesOn = "nothing"
    /\ Len(peerFrames) = 2 /\ NComplete = 1
    /\ CallsOf(frameLog) = <<"x", "y">>
    /\ Len(unprocessed) = prefixLength + 1
    /\ wire # <<>>

\* C2: stringReceived is called with a payload only once every byte its
\* prefix announces has been read, with exactly that payload; the bytes of a
\* frame still incomplete stay in the buffer.
C2_OnlyCompleteFramesDispatched ==
    /\ Len(frameLog) <= NComplete
    /\ \A i \in 1..Len(frameLog) : frameLog[i].payload = peerFrames[i].payload
    /\ rxResult \in {"none", "ok"} =>
         /\ Len(frameLog) = NComplete
         /\ Len(unprocessed) = PartialLen

\* C2 witness: the prefix and one byte of a two-byte payload have been read,
\* nothing was dispatched, and the five bytes are buffered.
C2_Witness ==
    /\ Len(peerFrames) = 1 /\ Len(peerFrames[1].payload) = 2
    /\ BytesRead = prefixLength + 1
    /\ frameLog = <<>>
    /\ Len(unprocessed) = prefixLength + 1

\* C3: a message sent by a peer transport with send(m), once its bytes have
\* been read by an open transport, is handed to Session.onMessage in exactly
\* one call, with the value m.
C3_RoundTrip ==
    (madeResult.result = "ok" /\ ~madeResult.ctorRaised) =>
        \A i \in Complete :
            peerFrames[i].sent \in Msgs =>
                /\ i <= Len(frameLog)
                /\ frameLog[i].calls = << peerFrames[i].sent >>

\* C3 witness: two messages sent by the peer have both arrived, "y" then "x".
C3_Witness ==
    /\ session = "bound"
    /\ Len(peerFrames) = 2 /\ NComplete = 2
    /\ peerFrames[1].sent = "y" /\ peerFrames[2].sent = "x"
    /\ CallsOf(frameLog) = <<"y", "x">>

\* C4: after connectionLost has run, whether or not onClose raised, isOpen()
\* is false and every send, close and abort fails with TransportLost, writes
\* nothing and leaves the underlying connection alone.
C4_ClosedAfterConnectionLost ==
    /\ conn = "lost" => (isOpen(session).raised = "none" /\ ~isOpen(session).value)
    /\ lastCall.lost => (lastCall.result = "TransportLost" /\ ~lastCall.effect)

\* C4 witness: onClose raised in connectionLost and a later send was refused.
C4_Witness ==
    /\ conn = "lost"
    /\ closeLog # <<>> /\ closeLog[1].raised
    /\ lastCall.op = "send" /\ lastCall.lost /\ lastCall.result = "TransportLost"

\* C5 (as stated): once close() or abort() has been issued on an open
\* transport, isOpen() is false and every later send, close and abort fails
\* with TransportLost, also before connectionLost is reported.  Stated for
\* the connections whose onOpen succeeded, where only a close() or abort() call
\* of the application tears the connection down.
C5_NotOpenOnceTornDown ==
    ~madeResult.onOpenRaised =>
        /\ (TornDown /\ conn = "connected") => ~isOpen(session).value
        /\ lastCall.torn => lastCall.result = "TransportLost"

\* C6 (as stated): once unserialize has raised for a frame, no message of a
\* later frame reaches Session.onMessage.
C6_NothingAfterDecodeFailure ==
    \A i \in 1..Len(frameLog) : \A j \in 1..Len(frameLog) :
        (i < j /\ frameLog[i].failure \in DecodeFailures) => frameLog[j].calls = <<>>

C8_UncleanCloseAfterDecodeFailure ==
    (\E i \in 1..Len(frameLog) : frameLog[i].open /\ frameLog[i].failure \in DecodeFailures)
        => \A k \in 1..Len(closeLog) : ~closeLog[k].wasClean

\* C9 (as stated): when Session.onOpen raised in connectionMade,
\* Session.onMessage is never called on that connection.
C9_NoMessageAfterFailedOnOpen ==
    madeResult.onOpenRaised => CallsOf(frameLog) = <<>>

\* C10 (as stated): when the session constructor raised in connectionMade, the
\* underlying connection has been torn down and connectionMade returned
\* normally.
C10_AbortAfterFailedConstructor ==
    madeResult.ctorRaised =>
        /\ madeResult.result = "ok"
        /\ abortConnectionCalls + loseConnectionCalls >= 1

\* C11: when Session.onClose raised inside connectionLost, connectionLost still
\* returned normally, the Session reference is released and the transport is
\* closed, as after an onClose that returned.
C11_OnCloseFailureSwallowed ==
    \A k \in 1..Len(closeLog) :
        closeLog[k].raised =>
            /\ lostResult = "ok"
            /\ conn = "lost"
            /\ session = "none"
            /\ isOpen(session) = [raised |-> "none", value |-> FALSE]

\* C11 witness: the connection of an open transport was lost and onClose raised.
C11_Witness ==
    /\ conn = "lost"
    /\ Len(closeLog) = 1
    /\ closeLog[1].raised
    /\ madeResult = [ctorRaised |-> FALSE, onOpenRaised |-> FALSE, result |-> "ok"]

\* C12 (as stated): every send made on a transport that was not open failed
\* with TransportLost and wrote no bytes.
C12_SendWhenNotOpenFails ==
    \A i \in 1..Len(callLog) :
        (callLog[i].op = "send" /\ callLog[i].sess # "bound") =>
            /\ callLog[i].result = "TransportLost"
            /\ ~callLog[i].wrote

\* C13: a send whose message the serializer refused on an open transport
\* failed with SerializationError, wrote nothing and tore nothing down, and
\* the send of an encodable message right after it, on the transport still
\* bound to its Session, succeeded and wrote its frame.
C13_SerializationFailureLeavesOpen ==
    \A i \in 1..Len(callLog) :
        (callLog[i].op = "send" /\ callLog[i].sess = "bound" /\ callLog[i].msg = Unencodable) =>
            /\ callLog[i].result = "SerializationError"
            /\ ~callLog[i].wrote
            /\ callLog[i].abortConnection + callLog[i].loseConnection = 0
            /\ \A w \in 1..Len(written) : written[w].msg # Unencodable
            /\ (i < Len(callLog) /\ callLog[i + 1].op = "send" /\ callLog[i + 1].sess = "bound"
                    /\ callLog[i + 1].msg \in Msgs)
                  => (callLog[i + 1].result = "ok" /\ callLog[i + 1].wrote)

\* C13 witness: a send was refused by the serializer and the next send, of an
\* encodable message, wrote the only frame there is.
C13_Witness ==
    /\ Len(callLog) = 2
    /\ callLog[1].op = "send" /\ callLog[1].result = "SerializationError"
    /\ callLog[2].op = "send" /\ callLog[2].result = "ok"
    /\ Len(written) = 1
    /\ abortConnectionCalls + loseConnectionCalls = 0

\* The send calls that returned normally, in call order.
RECURSIVE SuccessfulSends(_)
SuccessfulSends(log) ==
    IF log = <<>> THEN <<>>
    ELSE IF log[1].op = "send" /\ log[1].result = "ok"
           THEN <<log[1].msg>> \o SuccessfulSends(Tail(log))
           ELSE SuccessfulSends(Tail(log))

\* C14: the frames written are those of the successful send calls, one frame
\* per call and in call order, and each frame is the length prefix of that
\* call's serialized payload followed by the payload.
C14_FramesInCallOrder ==
    LET sends == SuccessfulSends(callLog)
    IN  /\ Len(written) = Len(sends)
        /\ \A i \in 1..Len(written) :
              LET payload == serialize(sends[i]).payload
                  frame == written[i].bytes
              IN  /\ written[i].msg = sends[i]
                  /\ Len(frame) = prefixLength + Len(payload)
                  /\ unpack(SubSeq(frame, 1, prefixLength)) = Len(payload)
                  /\ Drop(frame, prefixLength) = payload

\* C14 witness: two successful sends of different messages, 'y' before 'x'.
C14_Witness ==
    /\ Len(written) = 2
    /\ written[1].msg = "y" /\ written[2].msg = "x"
    /\ SuccessfulSends(callLog) = <<"y", "x">>

\* How many times the callback cb was made.
RECURSIVE Count(_, _)
Count(log, cb) ==
    IF log = <<>> THEN 0
    ELSE (IF log[1] = cb THEN 1 ELSE 0) + Count(Tail(log), cb)

\* C15: the callbacks of a bound Session come in lifecycle order: onOpen
\* exactly once, in connectionMade and before every onMessage; onClose at most
\* once; and nothing after onClose.
C15_LifecycleOrder ==
    /\ Count(sessionLog, "onOpen") =
           (IF madeResult.result # "none" /\ ~madeResult.ctorRaised THEN 1 ELSE 0)
    /\ sessionLog # <<>> => sessionLog[1] = "onOpen"
    /\ Count(sessionLog, "onClose") <= 1
    /\ \A i \in 1..Len(sessionLog) : sessionLog[i] = "onClose" => i = Len(sessionLog)
    /\ conn = "connecting" => sessionLog = <<>>

\* C15 witness: a whole life, onOpen, two messages and onClose.
C15_Witness ==
    sessionLog = << "onOpen", "onMessage", "onMessage", "onClose" >>

\* C17 (as stated): after connectionMade the transport is observed open only
\* when both the session constructor and Session.onOpen returned normally.
C17_OpenOnlyAfterSuccessfulOpen ==
    (conn # "connecting" /\ isOpen(session).raised = "none" /\ isOpen(session).value)
        => (~madeResult.ctorRaised /\ ~madeResult.onOpenRaised)

\* C18: the open state only moves forward. A bound Session is only ever
\* released, a released one stays released, and once the connection is lost
\* every later step leaves the transport lost, without a Session and not open.
C18_OpenStateMonotone ==
    [][ /\ session = "bound" => session' \in {"bound", "none"}
        /\ session = "none" => session' = "none"
        /\ conn = "lost" =>
              /\ conn' = "lost"
              /\ session' = "none"
              /\ isOpen(session') = [raised |-> "none", value |-> FALSE] ]_vars

\* C18 witness: one call was made while the transport was open and another
\* after its connection was lost.
C18_Witness ==
    /\ conn = "lost"
    /\ Len(callLog) = 2
    /\ callLog[1].sess = "bound"
    /\ callLog[2].sess = "none"
    /\ session = "none"

\* C19: Session.onClose was called with wasClean = true exactly when the
\* reason connectionLost was given is ConnectionDone.
C19_WasCleanIffConnectionDone ==
    \A k \in 1..Len(closeLog) :
        closeLog[k].wasClean <=> (closeLog[k].reason = "ConnectionDone")

\* C19 witness: an open transport lost its connection for a reason other than
\* ConnectionDone or an abort, and onClose was told the close was not clean.
C19_Witness ==
    /\ Len(closeLog) = 1
    /\ closeLog[1].reason = "ConnectionLost"
    /\ ~closeLog[1].wasClean
    /\ ~closeLog[1].raised

\* C20: an abort() made while isOpen() was true invoked abortConnection and
\* nothing else when the connection provides it, loseConnection and nothing
\* else when it does not; an abort() made while the transport was not open
\* invoked neither.
C20_AbortPicksOnePrimitive ==
    \A i \in 1..Len(callLog) :
        callLog[i].op = "abort" =>
            IF callLog[i].sess = "bound"
              THEN /\ callLog[i].result = "ok"
                   /\ callLog[i].abortConnection + callLog[i].loseConnection = 1
                   /\ callLog[i].abortConnection = 1 <=> hasAbortConnection
              ELSE /\ callLog[i].result # "ok"
                   /\ callLog[i].abortConnection = 0
                   /\ callLog[i].loseConnection = 0

\* C20 witness: an abort() on an open transport whose connection provides
\* abortConnection, then one after the connection was lost.
C20_Witness ==
    /\ hasAbortConnection
    /\ Len(callLog) = 2
    /\ callLog[1].op = "abort" /\ callLog[1].sess = "bound" /\ callLog[1].abortConnection = 1
    /\ callLog[2].op = "abort" /\ callLog[2].sess = "none"
    /\ abortConnectionCalls = 1 /\ loseConnectionCalls = 0

\* C21: within one frame received on an open transport, when Session.onMessage
\* raised on message i, onMessage was called with messages 1..i of the frame
\* in order and with none of the later ones, and the frame made one abort()
\* that tore the connection down; when unserialize raised, onMessage was
\* called with no message of the frame.
C21_DeliveryStopsAtFailure ==
    \A k \in 1..Len(frameLog) :
        LET f == frameLog[k]
            u == unserialize(f.payload)
            raising == {i \in 1..Len(u.msgs) : u.msgs[i] = raisesOn}
        IN  /\ u.err # "none" => (f.calls = <<>> /\ f.failure = u.err)
            /\ (f.open /\ raising # {}) => f.failure = "onMessage"
            /\ (f.open /\ f.failure = "onMessage") =>
                  \E i \in raising :
                      /\ \A j \in raising : i <= j
                      /\ f.calls = SubSeq(u.msgs, 1, i)
                      /\ f.aborts = 1
                      /\ f.abortConnection + f.loseConnection = 1

\* C21 witness: onMessage raised on the first message of a two-message frame,
\* whose second message was not delivered, and unserialize raised on another
\* frame.
C21_Witness ==
    /\ Len(frameLog) = 2
    /\ frameLog[1].payload = <<ByteY, ByteX>>
    /\ frameLog[1].open /\ frameLog[1].failure = "onMessage"
    /\ frameLog[1].calls = <<"y">>
    /\ frameLog[2].failure = "ProtocolError"
    /\ frameLog[2].calls = <<>>

\* C22 (as stated): no exception leaves stringReceived, whatever the payload
\* and whatever the state of the transport, and so none leaves dataReceived.
C22_NoErrorEscapesStringReceived ==
    /\ \A k \in 1..Len(frameLog) : frameLog[k].raised = "none"
    /\ rxResult \in {"none", "ok"}

\* C23: a Session whose onOpen raised in connectionMade is bound to the
\* transport, with no onClose made, for as long as the connection is not
\* reported lost; once it is, the Session has had exactly one onClose, its
\* last callback, with wasClean computed from the loss reason, and the
\* reference is released.
C23_FailedOpenSessionClosedOnce ==
    madeResult.onOpenRaised =>
        /\ conn = "connected" =>
              /\ session = "bound"
              /\ closeLog = <<>>
              /\ Count(sessionLog, "onClose") = 0
        /\ conn = "lost" =>
              /\ session = "none"
              /\ Len(closeLog) = 1
              /\ closeLog[1].wasClean <=> (closeLog[1].reason = "ConnectionDone")
              /\ Count(sessionLog, "onClose") = 1
              /\ sessionLog[Len(sessionLog)] = "onClose"
              /\ lostResult = "ok"

\* C23 witness: onOpen raised, the Session still got a message, then the
\* connection was lost and the Session got its one onClose.
C23_Witness ==
    /\ madeResult.onOpenRaised
    /\ conn = "lost"
    /\ session = "none"
    /\ sessionLog = << "onOpen", "onMessage", "onClose" >>
    /\ Len(closeLog) = 1

====
